---- MODULE Spec2Model ----
(***************************************************************************)
(* State-machine model of wsl-proxy.py: the Wayland wire-protocol proxy    *)
(* (class WaylandClient: per-connection object table, pools, buffers,      *)
(* surfaces, serial counter; class WaylandProxy: frame extractor, input    *)
(* injector and the select() loop of run_stdio).                           *)
(*                                                                         *)
(* Wire data is modelled as sequences of bytes (0..255).  A Python dict is *)
(* modelled as a sequence of [k, v] records in insertion order, which is   *)
(* the order Python iterates it in.  Python's None is modelled as 0 where  *)
(* the code itself treats the two alike (surface's buffer id, pool's mm).  *)
(* TLC's integers are 32-bit signed, so every u32 the model handles is     *)
(* below 2^31; 32-bit values are built and read bytewise.                  *)
(***************************************************************************)
EXTENDS Integers, Sequences, FiniteSets, TLC

\* ------------------------------------------------------------ bounds ----
\* Number of reads that return data in one run: the recvmsg calls on the
\* client sockets and the os.read calls on the host channel together.
MaxReads == 2

\* ------------------------------------------------- program constants ----
HEADER_SIZE == 8
SHM_FORMAT_ARGB8888 == 0
SHM_FORMAT_XRGB8888 == 1

\* str.encode('utf-8') / bytes literals for the names the program uses.
Utf8(s) ==
  CASE s = "wl_display" -> <<119, 108, 95, 100, 105, 115, 112, 108, 97, 121>>
    [] s = "wl_registry" -> <<119, 108, 95, 114, 101, 103, 105, 115, 116, 114, 121>>
    [] s = "wl_compositor" -> <<119, 108, 95, 99, 111, 109, 112, 111, 115, 105, 116, 111, 114>>
    [] s = "wl_subcompositor" -> <<119, 108, 95, 115, 117, 98, 99, 111, 109, 112, 111, 115, 105, 116, 111, 114>>
    [] s = "wl_shm" -> <<119, 108, 95, 115, 104, 109>>
    [] s = "xdg_wm_base" -> <<120, 100, 103, 95, 119, 109, 95, 98, 97, 115, 101>>
    [] s = "wl_seat" -> <<119, 108, 95, 115, 101, 97, 116>>
    [] s = "wl_output" -> <<119, 108, 95, 111, 117, 116, 112, 117, 116>>
    [] s = "wl_data_device_manager" -> <<119, 108, 95, 100, 97, 116, 97, 95, 100, 101, 118, 105, 99, 101, 95, 109, 97, 110, 97, 103, 101, 114>>
    [] s = "wl_shm_pool" -> <<119, 108, 95, 115, 104, 109, 95, 112, 111, 111, 108>>
    [] s = "wl_buffer" -> <<119, 108, 95, 98, 117, 102, 102, 101, 114>>
    [] s = "wl_surface" -> <<119, 108, 95, 115, 117, 114, 102, 97, 99, 101>>
    [] s = "xdg_surface" -> <<120, 100, 103, 95, 115, 117, 114, 102, 97, 99, 101>>
    [] s = "xdg_toplevel" -> <<120, 100, 103, 95, 116, 111, 112, 108, 101, 118, 101, 108>>
    [] s = "wl_region" -> <<119, 108, 95, 114, 101, 103, 105, 111, 110>>
    [] s = "wl_callback" -> <<119, 108, 95, 99, 97, 108, 108, 98, 97, 99, 107>>
    [] s = "wl_keyboard" -> <<119, 108, 95, 107, 101, 121, 98, 111, 97, 114, 100>>
    [] s = "wl_pointer" -> <<119, 108, 95, 112, 111, 105, 110, 116, 101, 114>>
    [] s = "wl_subsurface" -> <<119, 108, 95, 115, 117, 98, 115, 117, 114, 102, 97, 99, 101>>
    [] s = "wl_data_device" -> <<119, 108, 95, 100, 97, 116, 97, 95, 100, 101, 118, 105, 99, 101>>
    [] s = "wl_data_source" -> <<119, 108, 95, 100, 97, 116, 97, 95, 115, 111, 117, 114, 99, 101>>
    [] s = "win-way-seat" -> <<119, 105, 110, 45, 119, 97, 121, 45, 115, 101, 97, 116>>
    [] s = "WinWay" -> <<87, 105, 110, 87, 97, 121>>
    [] s = "Monitor" -> <<77, 111, 110, 105, 116, 111, 114>>
    [] s = "PIXL" -> <<80, 73, 88, 76>>
    [] s = "INPT" -> <<73, 78, 80, 84>>

\* The interface names the program knows or is sent.
Names ==
  {"wl_display", "wl_registry", "wl_compositor", "wl_subcompositor", "wl_shm",
   "xdg_wm_base", "wl_seat", "wl_output", "wl_data_device_manager", "wl_shm_pool",
   "wl_buffer", "wl_surface", "xdg_surface", "xdg_toplevel", "wl_region", "wl_callback",
   "wl_keyboard", "wl_pointer", "wl_subsurface", "wl_data_device", "wl_data_source"}

\* bytes.decode('utf-8'), the inverse of Utf8 on Names; any other name is a
\* str that no handler of the program compares equal to.
Decode(b) ==
  LET hits == {n \in Names : Utf8(n) = b}
  IN  IF hits = {} THEN "?" ELSE CHOOSE n \in hits : TRUE

\* GLOBALS with wl_shm and xdg_wm_base in each other's place.
GLOBALS_Swapped ==
  << <<1, "wl_compositor", 4>>, <<2, "wl_subcompositor", 1>>, <<4, "xdg_wm_base", 1>>,
     <<3, "wl_shm", 1>>, <<5, "wl_seat", 5>>, <<6, "wl_output", 3>>,
     <<7, "wl_data_device_manager", 3>> >>

\* GLOBALS: (name, interface, version), in list order.
GLOBALS ==
  << <<1, "wl_compositor", 4>>, <<2, "wl_subcompositor", 1>>, <<3, "wl_shm", 1>>,
     <<4, "xdg_wm_base", 1>>, <<5, "wl_seat", 5>>, <<6, "wl_output", 3>>,
     <<7, "wl_data_device_manager", 3>> >>

\* ------------------------------------------------------ Python dicts ----
DictKeys(d) == [i \in 1..Len(d) |-> d[i].k]

DictHas(d, key) == \E i \in 1..Len(d) : d[i].k = key

DictGet(d, key) == d[CHOOSE i \in 1..Len(d) : d[i].k = key].v

\* d[key] = val: an existing key keeps its place, a new one goes last.
DictSet(d, key, val) ==
  IF DictHas(d, key)
  THEN [i \in 1..Len(d) |-> IF d[i].k = key THEN [k |-> key, v |-> val] ELSE d[i]]
  ELSE Append(d, [k |-> key, v |-> val])

\* del d[key] / d.pop(key), for a key that is present.
DictDel(d, key) == SelectSeq(d, LAMBDA e : e.k # key)

\* --------------------------------------------------------- struct -------
\* struct.pack('<I', v) for v in 0..2^31-1, and for a negative v the bytes of
\* its 32-bit two's complement (which is what '<I' of v & 0xFFFFFFFF gives).
U32(v) == <<v % 256, (v \div 256) % 256, (v \div 65536) % 256, (v \div 16777216) % 256>>

\* data[offset:offset+n] of Python (offset counted from 0), clipped at the end.
Slice(data, offset, n) ==
  IF n <= 0 \/ offset >= Len(data) THEN <<>>
  ELSE SubSeq(data, offset + 1, IF offset + n > Len(data) THEN Len(data) ELSE offset + n)

\* The 16-bit halves of a little-endian u32.
Lo16(b) == b[1] + 256 * b[2]
Hi16(b) == b[3] + 256 * b[4]

\* struct.unpack('<I', b)[0] of four bytes.
UnpackU(b) == b[1] + 256 * b[2] + 65536 * b[3] + 16777216 * b[4]

\* struct.unpack('<i', b)[0] of four bytes.
UnpackI(b) ==
  IF b[4] >= 128 THEN b[1] + 256 * b[2] + 65536 * b[3] + 16777216 * (b[4] - 256)
  ELSE UnpackU(b)

\* decode_header: (object_id, opcode, size) of data[offset:], at least 8 bytes.
decode_header(data, offset) ==
  LET h == Slice(data, offset, HEADER_SIZE)
  IN  [object_id |-> UnpackU(SubSeq(h, 1, 4)),
       opcode |-> Lo16(SubSeq(h, 5, 8)),
       size |-> Hi16(SubSeq(h, 5, 8))]

\* read_uint / read_int raise struct.error when fewer than 4 bytes are left.
CanRead(pay, pos) == Len(pay) - pos >= 4
read_uint(pay, pos) == UnpackU(Slice(pay, pos, 4))
read_int(pay, pos) == UnpackI(Slice(pay, pos, 4))

\* bytes.strip(b'\x00'): leading and trailing NULs removed.
RECURSIVE StripNul(_)
StripNul(s) ==
  IF s = <<>> THEN s
  ELSE IF s[1] = 0 THEN StripNul(Tail(s))
  ELSE IF s[Len(s)] = 0 THEN StripNul(SubSeq(s, 1, Len(s) - 1))
  ELSE s

\* read_string: the string and the offset after its padding.
read_string(pay, pos) ==
  LET length == read_uint(pay, pos)
      padding == (4 - (length % 4)) % 4
  IN  [s |-> StripNul(Slice(pay, pos + 4, length - 1)),
       pos |-> pos + 4 + length + padding]

\* One argument of encode_message: an int, a str or a bytes object.
AInt(n) == [t |-> "int", i |-> n, b |-> <<>>]
AStr(s) == [t |-> "str", i |-> 0, b |-> Utf8(s)]
ABytes(b) == [t |-> "bytes", i |-> 0, b |-> b]

Zeros(n) == [i \in 1..n |-> 0]

EncodeArg(a) ==
  CASE a.t = "int" -> U32(a.i)
    [] a.t = "str" ->
         LET encoded == a.b \o <<0>>
             padding == (4 - (Len(encoded) % 4)) % 4
         IN  U32(Len(encoded)) \o encoded \o Zeros(padding)
    [] a.t = "bytes" -> a.b

RECURSIVE EncodePayload(_)
EncodePayload(args) ==
  IF args = <<>> THEN <<>> ELSE EncodeArg(Head(args)) \o EncodePayload(Tail(args))

\* encode_message(object_id, opcode, *args)
encode_message(object_id, opcode, args) ==
  LET payload == EncodePayload(args)
      size == HEADER_SIZE + Len(payload)
  IN  U32(object_id) \o <<opcode % 256, (opcode \div 256) % 256, size % 256, size \div 256>>
        \o payload

\* ----------------------------------------------------- environment ------
\* Byte i of the file behind a descriptor the client passed (the client's
\* pixels): any content will do, this one differs from byte to byte.
FileByte(fd, i) == (16 * fd + 3 * i + 1) % 256

\* mmap.mmap(fd, size, MAP_SHARED, PROT_READ) succeeds for a length within the
\* file; length 0 maps the whole of a non-empty file.
MmapOk(fsize, size) == IF size = 0 THEN fsize > 0 ELSE size <= fsize

\* ------------------------------------------------ one handler call ------
(* The state a call of handle_message / broadcast_input / close works on:   *)
(* the WaylandClient's fields (objects, surfaces, buffers, shm_pools,       *)
(* serial), the locals of handle_message (fds, responses, res of the        *)
(* handler running), the kernel's tables (open_fds, mmaps), the system      *)
(* calls made so far in the call (io, in order) and exc, set when an        *)
(* exception is propagating.  req counts the requests dispatched and gen    *)
(* the encode_message calls, so that io records what was generated when.    *)

\* One system call: a write to a client's socket (ch = "client"), to the host
\* channel (ch = "host"), a release of a kernel resource (ch = "sys"), or the
\* dispatch of a request (ch = "log").
Ev(st, ch, kind, data) ==
  [ch |-> ch, cli |-> st.cid, kind |-> kind, data |-> data, req |-> st.req, gen |-> st.gen]

\* res.append(self.encode_message(...)) inside a handler
Emit(st, kind, object_id, opcode, args) ==
  [st EXCEPT !.res = Append(@, Ev(st, "client", kind, encode_message(object_id, opcode, args))),
             !.gen = @ + 1]

\* WaylandClient.send(self.encode_message(...)): written to the socket at once
send(st, kind, object_id, opcode, args) ==
  [st EXCEPT !.io = Append(@, Ev(st, "client", kind, encode_message(object_id, opcode, args))),
             !.gen = @ + 1]

\* an exception leaves the handler
Raise(st) == [st EXCEPT !.exc = TRUE]

\* self.objects[oid] = (iface, ver)
SetObject(st, oid, iface, ver) ==
  [st EXCEPT !.objects = DictSet(@, oid, [iface |-> iface, ver |-> ver])]

\* if oid in self.objects: del self.objects[oid]
DelObject(st, oid) ==
  IF DictHas(st.objects, oid) THEN [st EXCEPT !.objects = DictDel(@, oid)] ELSE st

\* WaylandClient.try_focus, the loop over self.objects.items() from entry i on
RECURSIVE FocusLoop(_, _, _)
FocusLoop(st, sid, i) ==
  IF i > Len(st.objects) THEN st
  ELSE LET e == st.objects[i]
       IN  IF e.v.iface = "wl_keyboard"
           THEN LET ser == st.serial + 1
                    s1 == [st EXCEPT !.serial = ser]
                IN  FocusLoop(send(s1, "wl_keyboard.enter", e.k, 4,
                                   <<AInt(ser), AInt(sid), ABytes(<<>>)>>), sid, i + 1)
           ELSE IF e.v.iface = "wl_pointer"
           THEN LET ser == st.serial + 1
                    s1 == [st EXCEPT !.serial = ser]
                IN  FocusLoop(send(s1, "wl_pointer.enter", e.k, 4,
                                   <<AInt(ser), AInt(sid), AInt(0), AInt(0)>>), sid, i + 1)
           ELSE FocusLoop(st, sid, i + 1)

\* WaylandClient.try_focus: sid is the first key of self.surfaces
try_focus(st) ==
  IF st.surfaces = <<>> \/ st.surfaces[1].k = 0 THEN st
  ELSE FocusLoop(st, st.surfaces[1].k, 1)

\* WaylandClient.handle_display
RECURSIVE EmitGlobals(_, _, _)
EmitGlobals(st, reg_id, i) ==
  IF i > Len(GLOBALS) THEN st
  ELSE EmitGlobals(Emit(st, "wl_registry.global", reg_id, 0,
                        <<AInt(GLOBALS[i][1]), AStr(GLOBALS[i][2]), AInt(GLOBALS[i][3])>>),
                   reg_id, i + 1)

\* handle_display without the del of the callback after sync.
handle_display_KeepsCallback(st, opcode, payload) ==
  IF opcode = 0 THEN
    IF ~CanRead(payload, 0) THEN Raise(st)
    ELSE LET cb_id == read_uint(payload, 0)
             s1 == SetObject(st, cb_id, "wl_callback", 1)
         IN  Emit(s1, "wl_callback.done", cb_id, 0, <<AInt(st.now)>>)
  ELSE IF opcode = 1 THEN
    IF ~CanRead(payload, 0) THEN Raise(st)
    ELSE LET reg_id == read_uint(payload, 0)
         IN  EmitGlobals(SetObject(st, reg_id, "wl_registry", 1), reg_id, 1)
  ELSE st

\* WaylandClient.handle_display
handle_display(st, opcode, payload) ==
  IF opcode = 0 THEN
    IF ~CanRead(payload, 0) THEN Raise(st)
    ELSE LET cb_id == read_uint(payload, 0)
             s1 == SetObject(st, cb_id, "wl_callback", 1)
             s2 == Emit(s1, "wl_callback.done", cb_id, 0, <<AInt(st.now)>>)
         IN  [s2 EXCEPT !.objects = DictDel(@, cb_id)]
  ELSE IF opcode = 1 THEN
    IF ~CanRead(payload, 0) THEN Raise(st)
    ELSE LET reg_id == read_uint(payload, 0)
         IN  EmitGlobals(SetObject(st, reg_id, "wl_registry", 1), reg_id, 1)
  ELSE st

\* bytes.decode('utf-8') raises on a byte that is not ASCII (the model's
\* clients send ASCII names only).
DecodeOk(b) == \A i \in 1..Len(b) : b[i] < 128

\* handle_registry with scale and done from version 3 on.
handle_registry_ScaleFromV3(st, oid, op, pay) ==
  IF op # 0 THEN st
  ELSE IF ~CanRead(pay, 0) \/ ~CanRead(pay, 4) THEN Raise(st)
  ELSE LET str == read_string(pay, 4)
           pos == str.pos
       IN  IF ~DecodeOk(Slice(pay, 8, read_uint(pay, 4) - 1)) THEN Raise(st)
           ELSE IF ~CanRead(pay, pos) \/ ~CanRead(pay, pos + 4) THEN Raise(st)
           ELSE LET iface == Decode(str.s)
                    ver == read_uint(pay, pos)
                    nid == read_uint(pay, pos + 4)
                    s1 == [st EXCEPT !.objects = DictSet(@, nid, [iface |-> iface, ver |-> ver])]
                IN  IF iface = "wl_shm" THEN
                      Emit(Emit(s1, "wl_shm.format", nid, 0, <<AInt(SHM_FORMAT_ARGB8888)>>),
                           "wl_shm.format", nid, 0, <<AInt(SHM_FORMAT_XRGB8888)>>)
                    ELSE IF iface = "wl_seat" THEN
                      Emit(Emit(s1, "wl_seat.capabilities", nid, 0, <<AInt(3)>>),
                           "wl_seat.name", nid, 1, <<AStr("win-way-seat")>>)
                    ELSE IF iface = "wl_output" THEN
                      LET g == Emit(s1, "wl_output.geometry", nid, 0,
                                    <<AInt(0), AInt(0), AInt(1920), AInt(1080), AInt(0),
                                      AStr("WinWay"), AStr("Monitor"), AInt(0)>>)
                          m == Emit(g, "wl_output.mode", nid, 1,
                                    <<AInt(3), AInt(1920), AInt(1080), AInt(60000)>>)
                      IN  IF ver >= 3
                          THEN Emit(Emit(m, "wl_output.scale", nid, 3, <<AInt(1)>>),
                                    "wl_output.done", nid, 2, <<>>)
                          ELSE m
                    ELSE s1

\* WaylandClient.handle_registry
handle_registry(st, oid, op, pay) ==
  IF op # 0 THEN st
  ELSE IF ~CanRead(pay, 0) \/ ~CanRead(pay, 4) THEN Raise(st)
  ELSE LET str == read_string(pay, 4)
           pos == str.pos
       IN  IF ~DecodeOk(Slice(pay, 8, read_uint(pay, 4) - 1)) THEN Raise(st)
           ELSE IF ~CanRead(pay, pos) \/ ~CanRead(pay, pos + 4) THEN Raise(st)
           ELSE LET iface == Decode(str.s)
                    ver == read_uint(pay, pos)
                    nid == read_uint(pay, pos + 4)
                    s1 == [st EXCEPT !.objects = DictSet(@, nid, [iface |-> iface, ver |-> ver])]
                IN  IF iface = "wl_shm" THEN
                      Emit(Emit(s1, "wl_shm.format", nid, 0, <<AInt(SHM_FORMAT_ARGB8888)>>),
                           "wl_shm.format", nid, 0, <<AInt(SHM_FORMAT_XRGB8888)>>)
                    ELSE IF iface = "wl_seat" THEN
                      Emit(Emit(s1, "wl_seat.capabilities", nid, 0, <<AInt(3)>>),
                           "wl_seat.name", nid, 1, <<AStr("win-way-seat")>>)
                    ELSE IF iface = "wl_output" THEN
                      LET g == Emit(s1, "wl_output.geometry", nid, 0,
                                    <<AInt(0), AInt(0), AInt(1920), AInt(1080), AInt(0),
                                      AStr("WinWay"), AStr("Monitor"), AInt(0)>>)
                          m == Emit(g, "wl_output.mode", nid, 1,
                                    <<AInt(3), AInt(1920), AInt(1080), AInt(60000)>>)
                      IN  IF ver >= 2
                          THEN Emit(Emit(m, "wl_output.scale", nid, 3, <<AInt(1)>>),
                                    "wl_output.done", nid, 2, <<>>)
                          ELSE m
                    ELSE s1

\* WaylandClient.handle_compositor
handle_compositor(st, oid, op, pay) ==
  IF op = 0 THEN
    IF ~CanRead(pay, 0) THEN Raise(st)
    ELSE try_focus(SetObject(st, read_uint(pay, 0), "wl_surface", 4))
  ELSE IF op = 1 THEN
    IF ~CanRead(pay, 0) THEN Raise(st)
    ELSE SetObject(st, read_uint(pay, 0), "wl_region", 1)
  ELSE st

\* WaylandClient.handle_subcompositor
handle_subcompositor(st, oid, op, pay) ==
  IF op = 0 THEN DelObject(st, oid)
  ELSE IF op = 1 THEN
    IF ~CanRead(pay, 0) \/ ~CanRead(pay, 4) \/ ~CanRead(pay, 8) THEN Raise(st)
    ELSE SetObject(st, read_uint(pay, 0), "wl_subsurface", 1)
  ELSE st

\* WaylandClient.handle_region
handle_region(st, oid, op, pay) == IF op = 0 THEN DelObject(st, oid) ELSE st

\* WaylandClient.handle_data_device_manager
handle_data_device_manager(st, oid, op, pay) ==
  IF op = 0 THEN
    IF ~CanRead(pay, 0) \/ ~CanRead(pay, 4) THEN Raise(st)
    ELSE SetObject(st, read_uint(pay, 0), "wl_data_device", 3)
  ELSE IF op = 1 THEN
    IF ~CanRead(pay, 0) THEN Raise(st)
    ELSE SetObject(st, read_uint(pay, 0), "wl_data_source", 3)
  ELSE st

\* WaylandClient.handle_shm.  The descriptor popped from fds is kept in the
\* pool entry.  An entry that is overwritten loses its mmap object, which
\* CPython unmaps when the last reference goes; its descriptor is an int.
handle_shm(st, oid, op, pay) ==
  IF op # 0 THEN st
  ELSE IF ~CanRead(pay, 0) \/ ~CanRead(pay, 4) THEN Raise(st)
  ELSE LET pid == read_uint(pay, 0)
           size == read_uint(pay, 4)
           s1 == IF st.fds = <<>> THEN st
                 ELSE LET f == Head(st.fds)
                          ok == MmapOk(f.fsize, size)
                          old == IF DictHas(st.shm_pools, pid)
                                 THEN {DictGet(st.shm_pools, pid).mm} \ {0} ELSE {}
                      IN  [st EXCEPT
                             !.fds = Tail(@),
                             !.mmaps = {m \in @ : m.mm \notin old}
                                         \cup (IF ok THEN {[mm |-> f.fd, owner |-> st.cid]} ELSE {}),
                             !.shm_pools = DictSet(@, pid,
                                [fd |-> f.fd, mm |-> IF ok THEN f.fd ELSE 0, size |-> size])]
       IN  SetObject(s1, pid, "wl_shm_pool", 1)

\* mm.close() / os.close(fd) of one pool entry, as handle_shm_pool's destroy
\* and close() do them: the mapping first, then the descriptor.
ReleasePool(st, e) ==
  LET s1 == IF e.mm # 0
            THEN [st EXCEPT !.mmaps = {m \in @ : m.mm # e.mm},
                            !.io = Append(@, Ev(st, "sys", "munmap", <<e.mm>>))]
            ELSE st
  IN  IF e.fd >= 0
      THEN [s1 EXCEPT !.open_fds = {f \in @ : f.fd # e.fd},
                      !.io = Append(@, Ev(s1, "sys", "close", <<e.fd>>))]
      ELSE s1

\* WaylandClient.handle_shm_pool
handle_shm_pool(st, oid, op, pay) ==
  IF op = 0 THEN
    IF \E k \in 0..5 : ~CanRead(pay, 4 * k) THEN Raise(st)
    ELSE LET bid == read_uint(pay, 0)
             s1 == SetObject(st, bid, "wl_buffer", 1)
         IN  [s1 EXCEPT !.buffers = DictSet(@, bid,
                 [pid |-> oid, off |-> read_int(pay, 4), w |-> read_int(pay, 8),
                  h |-> read_int(pay, 12), stride |-> read_int(pay, 16),
                  fmt |-> read_uint(pay, 20)])]
  ELSE IF op = 1 THEN
    IF DictHas(st.shm_pools, oid)
    THEN ReleasePool([st EXCEPT !.shm_pools = DictDel(@, oid)], DictGet(st.shm_pools, oid))
    ELSE st
  ELSE st

\* WaylandClient.handle_buffer
handle_buffer(st, oid, op, pay) ==
  IF op = 0 THEN
    LET s1 == DelObject(st, oid)
    IN  IF DictHas(s1.buffers, oid) THEN [s1 EXCEPT !.buffers = DictDel(@, oid)] ELSE s1
  ELSE st

\* The rows send_pixl copies: for y in range(h), until off_y + row > sz.
RECURSIVE FitRows(_, _, _, _, _, _)
FitRows(off, stride, row, h, sz, y) ==
  IF y >= h \/ off + y * stride + row > sz THEN 0
  ELSE 1 + FitRows(off, stride, row, h, sz, y + 1)

\* WriteRows with no except clause around it: the exception of seek or of
\* flush leaves send_pixl, handle_surface and handle_message.
RECURSIVE WriteRows_Uncaught(_, _, _, _, _, _)
WriteRows_Uncaught(st, buf, pool, row, n, y) ==
  IF y >= n THEN
    IF st.pipe THEN [st EXCEPT !.io = Append(@, Ev(st, "host", "flush", <<>>))]
    ELSE Raise([st EXCEPT !.io = Append(@, Ev(st, "host", "flush raises", <<>>))])
  ELSE LET off_y == buf.off + y * buf.stride
           mlen == IF pool.size = 0 THEN pool.fsize ELSE pool.size
       IN  IF off_y < 0 \/ off_y > mlen THEN Raise(st)
           ELSE WriteRows_Uncaught(
                  [st EXCEPT !.io = Append(@, Ev(st, "host", "PIXL.row",
                      [i \in 1..(IF off_y + row > mlen THEN mlen - off_y ELSE row)
                         |-> FileByte(pool.mm, off_y + i - 1)]))],
                  buf, pool, row, n, y + 1)

\* mm.seek(off_y); sys.stdout.buffer.write(mm.read(row)) for rows y..n-1,
\* then sys.stdout.buffer.flush().  seek raises ValueError outside
\* 0..len(mm), which ends send_pixl with what was written left unflushed;
\* flush raises OSError when the host end of the pipe does not take the
\* bytes (st.pipe false).  Both are caught by send_pixl's except clause.
RECURSIVE WriteRows(_, _, _, _, _, _)
WriteRows(st, buf, pool, row, n, y) ==
  IF y >= n THEN
    IF st.pipe THEN [st EXCEPT !.io = Append(@, Ev(st, "host", "flush", <<>>))]
    ELSE [st EXCEPT !.io = Append(@, Ev(st, "host", "flush raises", <<>>))]
  ELSE LET off_y == buf.off + y * buf.stride
           mlen == IF pool.size = 0 THEN pool.fsize ELSE pool.size
       IN  IF off_y < 0 \/ off_y > mlen THEN st
           ELSE WriteRows(
                  [st EXCEPT !.io = Append(@, Ev(st, "host", "PIXL.row",
                      [i \in 1..(IF off_y + row > mlen THEN mlen - off_y ELSE row)
                         |-> FileByte(pool.mm, off_y + i - 1)]))],
                  buf, pool, row, n, y + 1)

\* struct.pack('<I', v) raises struct.error for a negative v.
PackOk(v) == v >= 0

\* WaylandProxy.send_pixl (mode 'stdio')
send_pixl(st, sid, buf) ==
  IF ~DictHas(st.shm_pools, buf.pid) THEN st
  ELSE LET p == DictGet(st.shm_pools, buf.pid)
           sz == p.size
           row == buf.w * 4
           n == FitRows(buf.off, buf.stride, row, buf.h, sz, 0)
           total_len == n * row
           fsize == (CHOOSE f \in st.open_fds : f.fd = p.fd).fsize
       IN  IF p.mm = 0 THEN st
           ELSE IF buf.off + buf.stride * buf.h > sz THEN st
           ELSE IF ~(PackOk(sid) /\ PackOk(buf.w) /\ PackOk(buf.h) /\ PackOk(buf.fmt)
                     /\ PackOk(total_len)) THEN st
           ELSE WriteRows(
                  [st EXCEPT !.io = Append(@, Ev(st, "host", "PIXL.header",
                      Utf8("PIXL") \o U32(sid) \o U32(buf.w) \o U32(buf.h) \o U32(buf.fmt)
                        \o U32(total_len)))],
                  buf, [mm |-> p.mm, size |-> sz, fsize |-> fsize], row, n, 0)

\* self.surfaces[oid] = bid if bid != 0 else None   (None is 0 here)
Attach(st, oid, bid) == [st EXCEPT !.surfaces = DictSet(@, oid, bid)]

\* SurfaceCommit with the release written to the socket before send_pixl runs.
SurfaceCommit_ReleaseFirst(st, oid) ==
  LET bid == IF DictHas(st.surfaces, oid) THEN DictGet(st.surfaces, oid) ELSE 0
  IN  IF bid # 0 /\ DictHas(st.buffers, bid)
      THEN send_pixl(send(st, "wl_buffer.release", bid, 0, <<>>), oid, DictGet(st.buffers, bid))
      ELSE st

\* handle_surface, op 6 (commit): the PIXL record is written, then the
\* release is appended to the handler's result.
SurfaceCommit(st, oid) ==
  LET bid == IF DictHas(st.surfaces, oid) THEN DictGet(st.surfaces, oid) ELSE 0
  IN  IF bid # 0 /\ DictHas(st.buffers, bid)
      THEN Emit(send_pixl(st, oid, DictGet(st.buffers, bid)), "wl_buffer.release", bid, 0, <<>>)
      ELSE st

\* WaylandClient.handle_surface.  Nothing inside its try block raises.
handle_surface(st, oid, op, pay) ==
  IF op = 0 THEN
    LET s1 == DelObject(st, oid)
    IN  IF DictHas(s1.surfaces, oid) THEN [s1 EXCEPT !.surfaces = DictDel(@, oid)] ELSE s1
  ELSE IF op = 1 THEN
    IF Len(pay) < 12
    THEN IF Len(pay) >= 4 THEN Attach(st, oid, read_uint(pay, 0)) ELSE st
    ELSE Attach(st, oid, read_uint(pay, 0))
  ELSE IF op = 3 THEN
    IF Len(pay) < 4 THEN st
    ELSE LET cb_id == read_uint(pay, 0)
             s1 == SetObject(st, cb_id, "wl_callback", 1)
             s2 == Emit(s1, "wl_callback.done", cb_id, 0, <<AInt(st.now)>>)
         IN  [s2 EXCEPT !.objects = DictDel(@, cb_id)]
  ELSE IF op = 6 THEN SurfaceCommit(st, oid)
  ELSE st

\* WaylandClient.handle_xdg_wm_base
handle_xdg_wm_base(st, oid, op, pay) ==
  IF op = 2 THEN
    IF ~CanRead(pay, 0) \/ ~CanRead(pay, 4) THEN Raise(st)
    ELSE SetObject(st, read_uint(pay, 0), "xdg_surface", 3)
  ELSE st

\* WaylandClient.handle_xdg_surface
handle_xdg_surface(st, oid, op, pay) ==
  IF op = 1 THEN
    IF ~CanRead(pay, 0) THEN Raise(st)
    ELSE LET tid == read_uint(pay, 0)
             s1 == SetObject(st, tid, "xdg_toplevel", 3)
             s2 == Emit(s1, "xdg_toplevel.configure", tid, 0,
                        <<AInt(800), AInt(600), ABytes(<<>>)>>)
             ser == s2.serial + 1
             s3 == Emit([s2 EXCEPT !.serial = ser], "xdg_surface.configure", oid, 0,
                        <<AInt(ser)>>)
         IN  try_focus(s3)
  ELSE st

\* WaylandClient.handle_xdg_toplevel
handle_xdg_toplevel(st, oid, op, pay) == st

\* WaylandClient.handle_seat
handle_seat(st, oid, op, pay) ==
  IF op = 0 THEN
    IF ~CanRead(pay, 0) THEN Raise(st)
    ELSE try_focus(SetObject(st, read_uint(pay, 0), "wl_pointer", 1))
  ELSE IF op = 1 THEN
    IF ~CanRead(pay, 0) THEN Raise(st)
    ELSE try_focus(SetObject(st, read_uint(pay, 0), "wl_keyboard", 1))
  ELSE st

\* The buffer a wl_surface.commit on object_id finds attached and registered
\* (0 if the request is no commit or finds none): what the log line of a
\* dispatched request is annotated with.
LiveCommit(st, object_id, opcode) ==
  IF /\ opcode = 6
     /\ DictHas(st.objects, object_id)
     /\ DictGet(st.objects, object_id).iface = "wl_surface"
     /\ DictHas(st.surfaces, object_id)
     /\ DictGet(st.surfaces, object_id) # 0
     /\ DictHas(st.buffers, DictGet(st.surfaces, object_id))
  THEN DictGet(st.surfaces, object_id)
  ELSE 0

\* The dispatch on obj_type in handle_message (lines 128-159)
Dispatch(st, object_id, obj_type, opcode, payload) ==
  CASE obj_type = "wl_display" -> handle_display(st, opcode, payload)
    [] obj_type = "wl_registry" -> handle_registry(st, object_id, opcode, payload)
    [] obj_type = "wl_compositor" -> handle_compositor(st, object_id, opcode, payload)
    [] obj_type = "wl_shm" -> handle_shm(st, object_id, opcode, payload)
    [] obj_type = "wl_shm_pool" -> handle_shm_pool(st, object_id, opcode, payload)
    [] obj_type = "wl_buffer" -> handle_buffer(st, object_id, opcode, payload)
    [] obj_type = "wl_surface" -> handle_surface(st, object_id, opcode, payload)
    [] obj_type = "xdg_wm_base" -> handle_xdg_wm_base(st, object_id, opcode, payload)
    [] obj_type = "xdg_surface" -> handle_xdg_surface(st, object_id, opcode, payload)
    [] obj_type = "xdg_toplevel" -> handle_xdg_toplevel(st, object_id, opcode, payload)
    [] obj_type = "wl_seat" -> handle_seat(st, object_id, opcode, payload)
    [] obj_type = "wl_data_device_manager" ->
         handle_data_device_manager(st, object_id, opcode, payload)
    [] obj_type = "wl_region" -> handle_region(st, object_id, opcode, payload)
    [] obj_type = "wl_subcompositor" -> handle_subcompositor(st, object_id, opcode, payload)
    [] OTHER -> st

\* for resp in responses: self.send(resp)
SendResponses(st) == [st EXCEPT !.io = @ \o st.responses, !.responses = <<>>]

\* The log line of a request (with LiveCommit), before the lookup.
Logged(st, object_id, opcode, size) ==
  [st EXCEPT !.req = @ + 1, !.res = <<>>,
             !.io = Append(@, [ch |-> "log", cli |-> st.cid, kind |-> "request",
                               data |-> <<object_id, opcode, size,
                                          LiveCommit(st, object_id, opcode)>>,
                               req |-> st.req + 1, gen |-> st.gen])]

\* responses.extend(res) when the handler returned
Extend(st) == IF st.exc THEN st ELSE [st EXCEPT !.responses = @ \o st.res, !.res = <<>>]

\* DispatchOne with self.objects[object_id] in place of .get(): a KeyError
\* for an id that is not in the table.
DispatchOne_KeyError(st, object_id, opcode, payload) ==
  IF ~DictHas(st.objects, object_id) THEN Raise(st)
  ELSE Extend(Dispatch(st, object_id, DictGet(st.objects, object_id).iface, opcode, payload))

\* One logged request: the lookup of the object (an unknown id is skipped),
\* the handler, responses.extend(...).
DispatchOne(st, object_id, opcode, payload) ==
  IF ~DictHas(st.objects, object_id) THEN st
  ELSE Extend(Dispatch(st, object_id, DictGet(st.objects, object_id).iface, opcode, payload))

\* After one request: an exception leaves the loop, else the next message.
RECURSIVE MessageLoop(_, _, _)
Continue(st, data, offset) == IF st.exc THEN st ELSE MessageLoop(st, data, offset)

\* The while loop of handle_message from byte `offset' on, then the sends.
\* An exception raised by a handler leaves handle_message with the
\* responses unsent.
MessageLoop(st, data, offset) ==
  IF offset >= Len(data) \/ Len(data) - offset < HEADER_SIZE THEN SendResponses(st)
  ELSE LET h == decode_header(data, offset)
       IN  IF h.size < 8 \/ Len(data) - offset < h.size THEN SendResponses(st)
           ELSE Continue(DispatchOne(Logged(st, h.object_id, h.opcode, h.size),
                                     h.object_id, h.opcode,
                                     Slice(data, offset + HEADER_SIZE, h.size - HEADER_SIZE)),
                         data, offset + h.size)

\* WaylandClient.handle_message(data, fds)
handle_message(st, data) == MessageLoop(st, data, 0)

\* WaylandClient.close: every pool entry in dict order, then the socket
RECURSIVE ClosePools(_, _)
ClosePools(st, i) ==
  IF i > Len(st.shm_pools) THEN st
  ELSE ClosePools(ReleasePool(st, st.shm_pools[i].v), i + 1)

close(st) ==
  LET s1 == ClosePools(st, 1)
  IN  [s1 EXCEPT !.io = Append(@, Ev(s1, "sys", "sock.close", <<>>))]

\* ------------------------------------------------------- the proxy ------
VARIABLES
  clients,      \* WaylandProxy.clients: dict socket -> WaylandClient
  socks,        \* each client socket: "new" (not connected), "open", "closed"
  open_fds,     \* descriptors received over client sockets and not closed
  mmaps,        \* live mappings
  next_fd,      \* the next descriptor number the kernel hands out
  hbuf,         \* run_stdio's buf: host-channel bytes not yet consumed
  rx,           \* what the last read returned: the socket (or "stdin"), the
                \* bytes (by the name Batches or HostChunks gives them) and
                \* the sizes of the files behind the descriptors
  io,           \* the system calls of the last loop iteration, in order
  wire_before,  \* per client: the last serial written to its socket before io
  reads         \* reads that returned data so far (sockets and host channel)

vars == <<clients, socks, open_fds, mmaps, next_fd, hbuf, rx, io, wire_before, reads>>

\* The connections the model runs.
CID == {"A", "B"}

\* WaylandClient.__init__
NewClient ==
  [objects |-> <<[k |-> 1, v |-> [iface |-> "wl_display", ver |-> 1]]>>,
   surfaces |-> <<>>, buffers |-> <<>>, shm_pools |-> <<>>, serial |-> 0]

\* int(time.time()*1000) & 0xFFFFFFFF: the clock runs with the reads.
now_ms == 1000 * reads + 1

NoRx == [cli |-> "-", name |-> "-", fsizes |-> <<>>]

\* The state a call on client c starts from, with the fds of this read.
CallState(c, fds) ==
  LET cl == DictGet(clients, c)
  IN  [cid |-> c, objects |-> cl.objects, surfaces |-> cl.surfaces, buffers |-> cl.buffers,
       shm_pools |-> cl.shm_pools, serial |-> cl.serial,
       fds |-> fds, res |-> <<>>, responses |-> <<>>, io |-> <<>>, gen |-> 0, req |-> 0,
       open_fds |-> open_fds \cup {[fd |-> fds[i].fd, owner |-> c, fsize |-> fds[i].fsize]
                                    : i \in 1..Len(fds)},
       mmaps |-> mmaps, exc |-> FALSE, now |-> now_ms, pipe |-> TRUE]

\* The same with the host end of the pipe taking the bytes written or not.
CallStateWith(c, fds, pipe) == [CallState(c, fds) EXCEPT !.pipe = pipe]

\* The WaylandClient fields of a call state.
ClientOf(st) ==
  [objects |-> st.objects, surfaces |-> st.surfaces, buffers |-> st.buffers,
   shm_pools |-> st.shm_pools, serial |-> st.serial]

\* The serial an event written to a client's socket carries (its first
\* argument), for the events that carry one.
SerialKinds ==
  {"xdg_surface.configure", "wl_keyboard.enter", "wl_pointer.enter", "wl_keyboard.key",
   "wl_pointer.button"}

SerialOf(e) == read_uint(e.data, HEADER_SIZE)

\* The serials written to c's socket by the calls of trace t, in order.
WireSerials(t, c) ==
  LET evs == SelectSeq(t, LAMBDA e : e.ch = "client" /\ e.cli = c /\ e.kind \in SerialKinds)
  IN  [i \in 1..Len(evs) |-> SerialOf(evs[i])]

WireLast(c) ==
  LET w == WireSerials(io, c)
  IN  IF w = <<>> THEN wire_before[c] ELSE w[Len(w)]

Init ==
  /\ clients = <<>>
  /\ socks = [c \in CID |-> "new"]
  /\ open_fds = {}
  /\ mmaps = {}
  /\ next_fd = 10
  /\ hbuf = <<>>
  /\ rx = NoRx
  /\ io = <<>>
  /\ wire_before = [c \in CID |-> 0]
  /\ reads = 0

\* srv is readable: accept, WaylandClient(cli, self), self.clients[cli] = wc
Accept(c) ==
  /\ socks[c] = "new"
  /\ socks' = [socks EXCEPT ![c] = "open"]
  /\ clients' = DictSet(clients, c, NewClient)
  /\ io' = <<>>
  /\ rx' = NoRx
  /\ wire_before' = [x \in CID |-> WireLast(x)]
  /\ UNCHANGED <<open_fds, mmaps, next_fd, hbuf, reads>>

\* The descriptors of the SCM_RIGHTS messages of a read, as the kernel
\* numbers them.
Received(fsizes) == [i \in 1..Len(fsizes) |-> [fd |-> next_fd + i - 1, fsize |-> fsizes[i]]]

\* Handled with the tables of WaylandClient shared by all instances (class
\* attributes): what the handler leaves is seen by every connected client.
Handled_SharedTables(c, st) ==
  LET s2 == IF st.exc THEN close(st) ELSE st
      kept == IF st.exc THEN DictDel(clients, c) ELSE clients
  IN  /\ clients' = [i \in 1..Len(kept) |-> [k |-> kept[i].k, v |-> ClientOf(s2)]]
      /\ socks' = IF st.exc THEN [socks EXCEPT ![c] = "closed"] ELSE socks
      /\ open_fds' = s2.open_fds
      /\ mmaps' = s2.mmaps
      /\ io' = s2.io

\* What run_stdio is left with after wc.handle_message returned or raised:
\* an exception closes the client and drops it from self.clients.
Handled(c, st) ==
  LET s2 == IF st.exc THEN close(st) ELSE st
  IN  /\ clients' = IF st.exc THEN DictDel(clients, c) ELSE DictSet(clients, c, ClientOf(s2))
      /\ socks' = IF st.exc THEN [socks EXCEPT ![c] = "closed"] ELSE socks
      /\ open_fds' = s2.open_fds
      /\ mmaps' = s2.mmaps
      /\ io' = s2.io

\* A client socket is readable and recvmsg returns data d with the
\* descriptors of its SCM_RIGHTS messages: handle_message(d, fds).
Recv(c, b) ==
  /\ reads < MaxReads
  /\ DictHas(clients, c)
  /\ \E st \in {handle_message(CallStateWith(c, Received(b.fsizes), TRUE), b.data)} :
       \/ Handled(c, st)
       \* the host end of the pipe is only looked at by the flush of a record
       \/ /\ \E i \in 1..Len(st.io) : st.io[i].ch = "host" /\ st.io[i].kind = "flush"
          /\ Handled(c, handle_message(CallStateWith(c, Received(b.fsizes), FALSE), b.data))
  /\ next_fd' = next_fd + Len(b.fsizes)
  /\ rx' = [cli |-> c, name |-> b.name, fsizes |-> b.fsizes]
  /\ wire_before' = [x \in CID |-> WireLast(x)]
  /\ reads' = reads + 1
  /\ UNCHANGED hbuf

\* What wc.close() leaves in the kernel's tables.
Released(st) ==
  /\ open_fds' = st.open_fds
  /\ mmaps' = st.mmaps
  /\ io' = st.io

\* recvmsg returns no data: raise Exception("EOF"), wc.close(), del self.clients[s]
Eof(c) ==
  /\ DictHas(clients, c)
  /\ Released(close(CallState(c, <<>>)))
  /\ clients' = DictDel(clients, c)
  /\ socks' = [socks EXCEPT ![c] = "closed"]
  /\ rx' = NoRx
  /\ wire_before' = [x \in CID |-> WireLast(x)]
  /\ UNCHANGED <<next_fd, hbuf, reads>>

\* int(p) * 256 as encode_message packs it (arg & 0xFFFFFFFF), given by the
\* signed 32-bit number congruent to it, whose bytes U32 yields.
Scaled(p) ==
  LET lo == p % 16777216
  IN  IF lo >= 8388608 THEN (lo - 16777216) * 256 ELSE lo * 256

\* InputOne with key and state (button and state) in the order of the record.
InputOne_Swapped(ctx, i, type_code, p1, p2) ==
  LET c == ctx.clients[i].k
      cl == ctx.clients[i].v
      ser == cl.serial + 1
      now == ctx.now
      keys == SelectSeq(cl.objects, LAMBDA e : e.v.iface = "wl_keyboard")
      ptrs == SelectSeq(cl.objects, LAMBDA e : e.v.iface = "wl_pointer")
      at(j) == [cid |-> c, req |-> 0, gen |-> ctx.gen + j - 1]
      msgs == IF type_code = 1 THEN
                [j \in 1..Len(keys) |-> Ev(at(j), "client", "wl_keyboard.key",
                    encode_message(keys[j].k, 3, <<AInt(ser), AInt(now), AInt(p1), AInt(p2)>>))]
              ELSE IF type_code = 2 THEN
                [j \in 1..Len(ptrs) |-> Ev(at(j), "client", "wl_pointer.motion",
                    encode_message(ptrs[j].k, 2, <<AInt(now), AInt(Scaled(p1)), AInt(Scaled(p2))>>))]
              ELSE IF type_code = 3 THEN
                [j \in 1..Len(ptrs) |-> Ev(at(j), "client", "wl_pointer.button",
                    encode_message(ptrs[j].k, 3, <<AInt(ser), AInt(now), AInt(p1), AInt(p2)>>))]
              ELSE <<>>
  IN  [ctx EXCEPT !.clients[i].v.serial = ser, !.io = @ \o msgs, !.gen = @ + Len(msgs)]

\* broadcast_input, the body of `for cli in self.clients.values()' for the
\* client at place i of ctx.clients: one serial per client and record.
InputOne(ctx, i, type_code, p1, p2) ==
  LET c == ctx.clients[i].k
      cl == ctx.clients[i].v
      ser == cl.serial + 1
      now == ctx.now
      keys == SelectSeq(cl.objects, LAMBDA e : e.v.iface = "wl_keyboard")
      ptrs == SelectSeq(cl.objects, LAMBDA e : e.v.iface = "wl_pointer")
      at(j) == [cid |-> c, req |-> 0, gen |-> ctx.gen + j - 1]
      msgs == IF type_code = 1 THEN
                [j \in 1..Len(keys) |-> Ev(at(j), "client", "wl_keyboard.key",
                    encode_message(keys[j].k, 3, <<AInt(ser), AInt(now), AInt(p2), AInt(p1)>>))]
              ELSE IF type_code = 2 THEN
                [j \in 1..Len(ptrs) |-> Ev(at(j), "client", "wl_pointer.motion",
                    encode_message(ptrs[j].k, 2, <<AInt(now), AInt(Scaled(p1)), AInt(Scaled(p2))>>))]
              ELSE IF type_code = 3 THEN
                [j \in 1..Len(ptrs) |-> Ev(at(j), "client", "wl_pointer.button",
                    encode_message(ptrs[j].k, 3, <<AInt(ser), AInt(now), AInt(p2), AInt(p1)>>))]
              ELSE <<>>
  IN  [ctx EXCEPT !.clients[i].v.serial = ser, !.io = @ \o msgs, !.gen = @ + Len(msgs)]

RECURSIVE InputLoop(_, _, _, _, _)
InputLoop(ctx, i, type_code, p1, p2) ==
  IF i > Len(ctx.clients) THEN ctx
  ELSE InputLoop(InputOne(ctx, i, type_code, p1, p2), i + 1, type_code, p1, p2)

\* WaylandProxy.broadcast_input(data)
broadcast_input(ctx, data) ==
  IF Len(data) < 20 \/ Slice(data, 0, 4) # Utf8("INPT") THEN ctx
  ELSE InputLoop(ctx, 1, read_uint(data, 4), read_uint(data, 8), read_uint(data, 12))

\* `for cli in self.clients.values(): cli.send(packet)' of run_stdio
Forward(ctx, packet) ==
  [ctx EXCEPT !.io = @ \o [i \in 1..Len(ctx.clients) |->
      Ev([cid |-> ctx.clients[i].k, req |-> 0, gen |-> ctx.gen], "client", "forward", packet)]]

\* run_stdio, `while len(buf) >= 8' over the host-channel buffer
RECURSIVE StdinLoop(_)
StdinLoop(ctx) ==
  LET buf == ctx.buf
  IN  IF Len(buf) < 8 THEN ctx
      ELSE IF Len(buf) >= 20 /\ Slice(buf, 0, 4) = Utf8("INPT") THEN
        StdinLoop([broadcast_input(ctx, Slice(buf, 0, 20)) EXCEPT
                     !.buf = Slice(buf, 20, Len(buf))])
      ELSE LET size == Hi16(Slice(buf, 4, 4))
           IN  IF size < 8 THEN StdinLoop([ctx EXCEPT !.buf = Tail(buf)])
               ELSE IF Len(buf) >= size THEN
                 StdinLoop([Forward(ctx, Slice(buf, 0, size)) EXCEPT
                              !.buf = Slice(buf, size, Len(buf))])
               ELSE ctx

\* What the loop over buf leaves: the clients' serials, the writes, the rest.
Consumed(ctx) ==
  /\ clients' = ctx.clients
  /\ io' = ctx.io
  /\ hbuf' = ctx.buf

\* stdin is readable: d = os.read(stdin_fd, 65536); buf.extend(d); the loop
Stdin(d) ==
  /\ reads < MaxReads
  /\ Consumed(StdinLoop([clients |-> clients, io |-> <<>>, gen |-> 0, now |-> now_ms,
                         buf |-> hbuf \o d.data]))
  /\ rx' = [cli |-> "stdin", name |-> d.name, fsizes |-> <<>>]
  /\ wire_before' = [x \in CID |-> WireLast(x)]
  /\ reads' = reads + 1
  /\ UNCHANGED <<socks, open_fds, mmaps, next_fd>>

\* ------------------------------------------------- what clients send ----
\* A request as a client packs it: struct.pack('<II', id, (size << 16) | op)
\* and the arguments.
Req(object_id, opcode, payload) ==
  U32(object_id)
    \o <<opcode % 256, opcode \div 256, (8 + Len(payload)) % 256, (8 + Len(payload)) \div 256>>
    \o payload

\* A string argument: length with the NUL, the bytes, the NUL, the padding.
WlString(s) ==
  U32(Len(Utf8(s)) + 1) \o Utf8(s) \o <<0>> \o Zeros((4 - ((Len(Utf8(s)) + 1) % 4)) % 4)

Bind(reg, name, iface, ver, nid) ==
  Req(reg, 0, U32(name) \o WlString(iface) \o U32(ver) \o U32(nid))

\* The ids the model's clients use for their objects.
Handshake ==
  Req(1, 1, U32(2)) \o Bind(2, 1, "wl_compositor", 4, 3) \o Bind(2, 3, "wl_shm", 1, 4)
    \o Bind(2, 5, "wl_seat", 5, 5) \o Bind(2, 4, "xdg_wm_base", 1, 6)

CreatePool(pid, size) == Req(4, 0, U32(pid) \o U32(size))

CreateBuffer(pool, bid, off, w, h, stride, fmt) ==
  Req(pool, 0, U32(bid) \o U32(off) \o U32(w) \o U32(h) \o U32(stride) \o U32(fmt))

AttachReq(sid, bid) == Req(sid, 1, U32(bid) \o U32(0) \o U32(0))

Commit(sid) == Req(sid, 6, <<>>)

\* surface 7, pool 8 of 16 bytes, buffer 9 of 1 x 2 pixels with stride 8
Setup ==
  Req(3, 0, U32(7)) \o CreatePool(8, 16) \o CreateBuffer(8, 9, 0, 1, 2, 8, 1) \o AttachReq(7, 9)

\* Setup with a buffer of another geometry on the 16-byte pool
SetupWith(off, w, h, stride) ==
  Req(3, 0, U32(7)) \o CreatePool(8, 16) \o CreateBuffer(8, 9, off, w, h, stride, 1)
    \o AttachReq(7, 9)

\* wl_display.get_registry with no new_id (size 8)
ShortGetRegistry == Req(1, 1, <<>>)

\* a header whose size field is 4
BadSize == U32(1) \o <<1, 0, 4, 0>>

\* a request to an object id that is in no table; a wl_display request with
\* an opcode handle_display does not implement
UnknownObject == Req(99, 0, U32(5))
UnknownOpcode == Req(1, 7, U32(5))

Sync(cb) == Req(1, 0, U32(cb))

\* What one recvmsg can return: the bytes and the sizes of the files behind
\* the descriptors that came with them.
Batches ==
  { [name |-> "handshake", data |-> Handshake, fsizes |-> <<>>],
    [name |-> "handshake+setup", data |-> Handshake \o Setup, fsizes |-> <<16>>],
    [name |-> "setup", data |-> Setup, fsizes |-> <<16>>],
    [name |-> "setup, no fd", data |-> Setup, fsizes |-> <<>>],
    [name |-> "setup, short file", data |-> Setup, fsizes |-> <<8>>],
    [name |-> "commit", data |-> Commit(7), fsizes |-> <<>>],
    [name |-> "commit, short get_registry", data |-> Commit(7) \o ShortGetRegistry,
     fsizes |-> <<>>],
    [name |-> "commit, bad size, sync", data |-> Commit(7) \o BadSize \o Sync(14),
     fsizes |-> <<>>],
    [name |-> "detach, commit", data |-> AttachReq(7, 0) \o Commit(7), fsizes |-> <<>>],
    [name |-> "destroy buffer, commit", data |-> Req(9, 0, <<>>) \o Commit(7),
     fsizes |-> <<>>],
    [name |-> "create_surface, commit", data |-> Req(3, 0, U32(15)) \o Commit(15),
     fsizes |-> <<>>],
    [name |-> "get_keyboard, get_xdg_surface, get_toplevel",
     data |-> Req(5, 1, U32(10)) \o Req(6, 2, U32(12) \o U32(7)) \o Req(12, 1, U32(13)),
     fsizes |-> <<>>],
    [name |-> "get_pointer, get_keyboard", data |-> Req(5, 0, U32(11)) \o Req(5, 1, U32(10)),
     fsizes |-> <<>>],
    [name |-> "destroy pool twice", data |-> Req(8, 1, <<>>) \o Req(8, 1, <<>>),
     fsizes |-> <<>>],
    [name |-> "create_pool", data |-> CreatePool(8, 16), fsizes |-> <<16>>],
    [name |-> "sync with fd", data |-> Sync(14), fsizes |-> <<16>>],
    [name |-> "garbage byte, get_registry", data |-> <<255>> \o Req(1, 1, U32(2)),
     fsizes |-> <<>>],
    [name |-> "sync, short get_registry", data |-> Sync(14) \o ShortGetRegistry,
     fsizes |-> <<>>],
    [name |-> "unknown object, sync", data |-> UnknownObject \o Sync(14), fsizes |-> <<>>],
    [name |-> "unknown opcode, sync", data |-> UnknownOpcode \o Sync(14), fsizes |-> <<>>],
    [name |-> "commit, frame", data |-> Commit(7) \o Req(7, 3, U32(14)), fsizes |-> <<>>],
    [name |-> "handshake, get_pointer, create_surface",
     data |-> Handshake \o Req(5, 0, U32(11)) \o Req(3, 0, U32(7)), fsizes |-> <<>>],
    [name |-> "handshake, get_keyboard twice",
     data |-> Handshake \o Req(5, 1, U32(10)) \o Req(5, 1, U32(16)), fsizes |-> <<>>],
    [name |-> "get_registry, first 6 bytes", data |-> Slice(Req(1, 1, U32(2)), 0, 6),
     fsizes |-> <<>>],
    [name |-> "get_registry, last 6 bytes", data |-> Slice(Req(1, 1, U32(2)), 6, 6),
     fsizes |-> <<>>],
    [name |-> "handshake with fd", data |-> Handshake, fsizes |-> <<16>>],
    [name |-> "handshake+setup, tall buffer", data |-> Handshake \o SetupWith(0, 1, 3, 8),
     fsizes |-> <<16>>],
    [name |-> "handshake, bind wl_output v1 and v3",
     data |-> Handshake \o Bind(2, 6, "wl_output", 1, 17) \o Bind(2, 6, "wl_output", 3, 18),
     fsizes |-> <<>>],
    [name |-> "handshake+setup, second pool",
     data |-> Handshake \o Setup \o CreatePool(18, 16), fsizes |-> <<16, 16>>],
    [name |-> "sync as 1, sync", data |-> Sync(1) \o Sync(14), fsizes |-> <<>>],
    [name |-> "handshake+setup, negative offset",
     data |-> Handshake \o SetupWith(0 - 4, 1, 2, 8), fsizes |-> <<16>>] }

\* An INPT record as the host packs it.
Inpt(type_code, p1, p2) == Utf8("INPT") \o U32(type_code) \o U32(p1) \o U32(p2) \o U32(0)

\* What one read of the host channel can return.
HostChunks ==
  { [name |-> "key", data |-> Inpt(1, 1, 30)],
    [name |-> "motion", data |-> Inpt(2, 100, 200)],
    [name |-> "motion, far", data |-> Inpt(2, 16777316, 8388608)],
    [name |-> "button", data |-> Inpt(3, 1, 272)],
    [name |-> "type 4", data |-> Inpt(4, 0, 0)] }

Next ==
  \/ \E c \in CID : Accept(c)
  \/ \E c \in CID, b \in Batches : Recv(c, b)
  \/ \E c \in CID : Eof(c)
  \/ \E d \in HostChunks : Stdin(d)

Spec == Init /\ [][Next]_vars

\* ============================================================ claims ====
\* Places of io (the system calls of the last loop iteration).
Places == 1..Len(io)

\* The object id an event written to a client's socket is addressed to.
EventObject(e) == read_uint(e.data, 0)

\* The events written to c's socket, in the order of the writes.
Wire(t, c) == SelectSeq(t, LAMBDA e : e.ch = "client" /\ e.cli = c)

\* C1: for every commit that writes a PIXL record, the wl_buffer.release of
\* that commit is written to the client's socket after every write of the
\* record to the host channel (header, rows and flush), whatever else the
\* batch holds.
C1_ReleaseAfterPixl ==
  \A i \in Places, j \in Places :
    (/\ io[i].ch = "client" /\ io[i].kind = "wl_buffer.release"
     /\ io[j].ch = "host" /\ io[j].cli = io[i].cli /\ io[j].req = io[i].req)
    => j < i

\* A commit in a batch of two requests: header, both rows and the flush of
\* the record, then the release, then the event of the request after it.
C1_Witness ==
  \E h \in Places :
    /\ h + 5 <= Len(io)
    /\ io[h].kind = "PIXL.header" /\ io[h + 1].kind = "PIXL.row" /\ io[h + 2].kind = "PIXL.row"
    /\ io[h + 3].kind = "flush"
    /\ \E i \in (h + 4)..(Len(io) - 1) :
         /\ io[i].kind = "wl_buffer.release"
         /\ io[i].req = io[h].req /\ io[i].cli = io[h].cli
         /\ io[i + 1].kind = "wl_callback.done" /\ io[i + 1].req > io[i].req

\* The releases of buffer b written to c's socket, and the commits dispatched
\* on c that found b attached and registered.
Releases(c, b) ==
  Cardinality({i \in Places : /\ io[i].ch = "client" /\ io[i].cli = c
                              /\ io[i].kind = "wl_buffer.release" /\ EventObject(io[i]) = b})

LiveCommits(c, b) ==
  Cardinality({i \in Places : io[i].ch = "log" /\ io[i].cli = c /\ io[i].data[4] = b})

CommittedBuffers ==
  {io[i].data[4] : i \in {j \in Places : io[j].ch = "log"}} \ {0}

\* C2: the releases of buffer b written to a client's socket are as many as
\* the commits handled on that connection that found b attached and
\* registered, also when a later message of the batch is malformed.
C2_OneReleasePerLiveCommit ==
  \A c \in CID : \A b \in CommittedBuffers : Releases(c, b) = LiveCommits(c, b)

RECURSIVE NonDecreasing(_)
NonDecreasing(q) ==
  Len(q) < 2 \/ (q[1] <= q[2] /\ NonDecreasing(Tail(q)))

\* C3: the serials of the events written to a client's socket are
\* non-decreasing in the order of the writes.
C3_WireSerialsNonDecreasing ==
  \A c \in CID : NonDecreasing(<<wire_before[c]>> \o WireSerials(io, c))

\* C4: after a connection is closed no descriptor received on it is open and
\* no mapping made for it is mapped.
C4_ClosedHoldsNothing ==
  \A c \in CID :
    socks[c] = "closed" =>
      /\ {f \in open_fds : f.owner = c} = {}
      /\ {m \in mmaps : m.owner = c} = {}

\* C5: every buffer's pool id is a key of the pool registry.
C5_BufferPoolIsLive ==
  \A i \in 1..Len(clients) :
    \A j \in 1..Len(clients[i].v.buffers) :
      DictHas(clients[i].v.shm_pools, clients[i].v.buffers[j].v.pid)

\* The events of one kind written to c's socket for object oid.
EventsTo(c, kind, oid) ==
  {i \in Places : /\ io[i].ch = "client" /\ io[i].cli = c
                  /\ io[i].kind = kind /\ EventObject(io[i]) = oid}

\* C6: a get_registry preceded by one garbage byte is processed: the seven
\* wl_registry.global events of the new registry are sent to the client.
C6_GarbageByteSkipped ==
  \A c \in CID :
    (rx.cli = c /\ rx.name = "garbage byte, get_registry")
    => Cardinality(EventsTo(c, "wl_registry.global", 2)) = Len(GLOBALS)

\* C7: a get_registry with no new_id never closes the connection: the client
\* stays in the client set and the wl_callback.done of the sync before it in
\* the same batch is sent.
C7_ShortPayloadKeepsConnection ==
  \A c \in CID :
    (rx.cli = c /\ rx.name = "sync, short get_registry")
    => /\ DictHas(clients, c)
       /\ socks[c] = "open"
       /\ EventsTo(c, "wl_callback.done", 14) # {}

\* The opcodes the handler of an interface has a branch for.
Implemented(obj_type) ==
  CASE obj_type = "wl_display" -> {0, 1}
    [] obj_type = "wl_registry" -> {0}
    [] obj_type = "wl_compositor" -> {0, 1}
    [] obj_type = "wl_subcompositor" -> {0, 1}
    [] obj_type = "wl_region" -> {0}
    [] obj_type = "wl_data_device_manager" -> {0, 1}
    [] obj_type = "wl_shm" -> {0}
    [] obj_type = "wl_shm_pool" -> {0, 1}
    [] obj_type = "wl_buffer" -> {0}
    [] obj_type = "wl_surface" -> {0, 1, 3, 6}
    [] obj_type = "xdg_wm_base" -> {2}
    [] obj_type = "xdg_surface" -> {1}
    [] obj_type = "wl_seat" -> {0, 1}
    [] OTHER -> {}

\* The message at the head of data is whole and is addressed to an object
\* that is not in the table, or carries an opcode its handler has no branch for.
HeadIsSkipped(cl, data) ==
  /\ Len(data) >= HEADER_SIZE
  /\ LET h == decode_header(data, 0)
     IN  /\ h.size >= HEADER_SIZE /\ Len(data) >= h.size
         /\ \/ ~DictHas(cl.objects, h.object_id)
            \/ h.opcode \notin Implemented(DictGet(cl.objects, h.object_id).iface)

\* What a trace writes outside the log, without the ordinals of requests.
Outbound(t) ==
  LET w == SelectSeq(t, LAMBDA e : e.ch # "log")
  IN  [i \in 1..Len(w) |-> [ch |-> w[i].ch, cli |-> w[i].cli, kind |-> w[i].kind, data |-> w[i].data]]

Requests(t) == Len(SelectSeq(t, LAMBDA e : e.ch = "log"))

BatchOf(name) == CHOOSE b \in Batches : b.name = name

\* head is what handling the first message alone leaves: nothing changed,
\* nothing written.
HeadAlone(c, head) ==
  /\ ~head.exc
  /\ ClientOf(head) = DictGet(clients, c)
  /\ head.open_fds \ {f \in head.open_fds : f.fd >= next_fd} = open_fds
  /\ head.mmaps = mmaps
  /\ Outbound(head.io) = <<>>

\* rest is what handling the batch without its first message leaves: the
\* step left the same.
RestAlone(c, rest) ==
  LET fin == IF rest.exc THEN close(rest) ELSE rest
  IN  /\ Requests(io') = 1 + Requests(rest.io)
      /\ Outbound(io') = Outbound(fin.io)
      /\ IF rest.exc THEN ~DictHas(clients', c)
         ELSE DictHas(clients', c) /\ DictGet(clients', c) = ClientOf(rest)
      /\ open_fds' = fin.open_fds
      /\ mmaps' = fin.mmaps

\* The read of this step handled a batch of c whose head is such a message.
SkippedHeadStep(c) ==
  \A b \in {BatchOf(rx'.name)} :
    HeadIsSkipped(DictGet(clients, c), b.data) =>
      \A size \in {decode_header(b.data, 0).size}, s0 \in {CallState(c, Received(b.fsizes))} :
        /\ \A head \in {handle_message(s0, Slice(b.data, 0, size))} : HeadAlone(c, head)
        /\ \A rest \in {handle_message(s0, Slice(b.data, size, Len(b.data) - size))} :
             RestAlone(c, rest)

\* C8: a message to an object that is not in the table, or with an opcode the
\* handler of its interface does not implement, leaves objects, shm_pools,
\* buffers, surfaces and serial unchanged and writes nothing, and the
\* messages after it in the batch are dispatched as if it had not been there.
C8_UnknownIsSkipped ==
  [][(reads' = reads + 1 /\ rx'.cli \in CID) => SkippedHeadStep(rx'.cli)]_vars

\* A sync behind a message to an object that is not in the table, on a
\* connection that has bound its globals: the wl_callback.done is sent.
C8_Witness ==
  \E c \in CID :
    /\ rx.cli = c /\ rx.name = "unknown object, sync"
    /\ DictHas(clients, c) /\ Len(DictGet(clients, c).objects) > 1
    /\ Requests(io) = 2
    /\ EventsTo(c, "wl_callback.done", 14) # {}

\* C9: the events of a connection are written to its socket in the order in
\* which encode_message built them.
C9_WireOrderIsGenerationOrder ==
  \A c \in CID :
    LET w == Wire(io, c)
    IN  \A i \in 1..Len(w), j \in 1..Len(w) : i < j => w[i].gen < w[j].gen

\* What the process holds for connection b.
Held(b, cls, sk, fds, mms) ==
  [has |-> DictHas(cls, b),
   state |-> IF DictHas(cls, b) THEN DictGet(cls, b) ELSE NewClient,
   sock |-> sk[b],
   fds |-> {f \in fds : f.owner = b},
   mms |-> {m \in mms : m.owner = b}]

\* C10: a read from connection a changes nothing of what is held for any
\* other connection b and writes nothing to b's socket.
C10_Isolation ==
  [][\A a \in CID :
       (reads' = reads + 1 /\ rx'.cli = a) =>
         \A b \in CID \ {a} :
           /\ Held(b, clients', socks', open_fds', mmaps') = Held(b, clients, socks, open_fds, mmaps)
           /\ \A i \in 1..Len(io') : io'[i].ch # "log" => io'[i].cli = a]_vars

\* A batch of A that registers objects and is answered with events, while B
\* is connected with tables of its own.
C10_Witness ==
  /\ rx.cli = "A" /\ rx.name = "handshake+setup"
  /\ DictHas(clients, "B") /\ Len(DictGet(clients, "B").objects) > 1
  /\ DictHas(clients, "A")
  /\ DictGet(clients, "A").objects # DictGet(clients, "B").objects
  /\ Wire(io, "A") # <<>>

\* The last two reads were both from c's socket and returned first, then
\* second (rx is what the last read returned, rx' what this one returns).
ReadsInARow(c, first, second) ==
  /\ rx.cli = c /\ rx.name = first
  /\ rx'.cli = c /\ rx'.name = second
  /\ reads' = reads + 1

\* C11: a get_registry whose 12 bytes arrive as 6 bytes in one read and 6 in
\* the next is dispatched once when it is complete: the second read logs the
\* request and writes the seven wl_registry.global events to the client.
C11_SplitMessageDispatched ==
  [][\A c \in CID :
       ReadsInARow(c, "get_registry, first 6 bytes", "get_registry, last 6 bytes")
       => /\ Requests(io') = 1
          /\ Cardinality({i \in 1..Len(io') : /\ io'[i].ch = "client" /\ io'[i].cli = c
                                              /\ io'[i].kind = "wl_registry.global"})
               = Len(GLOBALS)]_vars

\* C12: a descriptor received in an earlier read than the create_pool that
\* is the first of the connection is the one that create_pool gets: after a
\* handshake that carried one descriptor, create_pool(8) in the next read
\* leaves pool 8 holding that descriptor.
C12_FdWaitsForCreatePool ==
  [][\A c \in CID :
       ReadsInARow(c, "handshake with fd", "setup, no fd")
       => /\ DictHas(clients', c)
          /\ DictHas(DictGet(clients', c).shm_pools, 8)
          /\ DictGet(DictGet(clients', c).shm_pools, 8).fd = next_fd - 1]_vars

\* C13: create_surface(7) on a connection that already has wl_pointer 11
\* sends wl_pointer.enter (opcode 4) to object 11 naming surface 7.
C13_EnterOnCreateSurface ==
  \A c \in CID :
    (rx.cli = c /\ rx.name = "handshake, get_pointer, create_surface")
    => \E i \in EventsTo(c, "wl_pointer.enter", 11) :
         /\ decode_header(io[i].data, 0).opcode = 4
         /\ read_uint(io[i].data, HEADER_SIZE + 4) = 7

ChunkOf(name) == CHOOSE d \in HostChunks : d.name = name

\* The ids of the objects of one interface in a table, in table order.
ObjectsOf(objects, iface) ==
  LET sel == SelectSeq(objects, LAMBDA e : e.v.iface = iface)
  IN  [j \in 1..Len(sel) |-> sel[j].k]

\* The four bytes of (p * 256) mod 2^32: the bytes of p moved up by one.
TimesBytes(p) == <<0>> \o SubSeq(U32(p), 1, 3)

\* An event with its serial (the first argument) blanked.
NoSerial(data) == Slice(data, 0, HEADER_SIZE) \o Zeros(4) \o Slice(data, HEADER_SIZE + 4, Len(data))

\* What a client with these objects is to receive for an INPT record.
ExpectedInput(objects, type_code, p1, p2, time) ==
  LET keys == ObjectsOf(objects, "wl_keyboard")
      ptrs == ObjectsOf(objects, "wl_pointer")
  IN  IF type_code = 1 THEN
        [j \in 1..Len(keys) |-> U32(keys[j]) \o <<3, 0, 24, 0>> \o Zeros(4)
                                  \o U32(time) \o U32(p2) \o U32(p1)]
      ELSE IF type_code = 2 THEN
        [j \in 1..Len(ptrs) |-> U32(ptrs[j]) \o <<2, 0, 20, 0>>
                                  \o U32(time) \o TimesBytes(p1) \o TimesBytes(p2)]
      ELSE IF type_code = 3 THEN
        [j \in 1..Len(ptrs) |-> U32(ptrs[j]) \o <<3, 0, 24, 0>> \o Zeros(4)
                                  \o U32(time) \o U32(p2) \o U32(p1)]
      ELSE <<>>

\* What was written to c's socket in a trace: the bytes, the serial of key
\* and button events blanked.
Received14(t, c, type_code) ==
  LET w == SelectSeq(t, LAMBDA e : e.cli = c)
  IN  [j \in 1..Len(w) |-> IF type_code = 2 THEN w[j].data ELSE NoSerial(w[j].data)]

\* C14: a whole INPT record read from the host channel gives every connected
\* client one event per matching input object, in table order, with the
\* arguments of the record (motion scaled by 256 modulo 2^32), and nothing
\* else is written.
C14_InputFanOut ==
  [][(reads' = reads + 1 /\ rx'.cli = "stdin" /\ hbuf = <<>>) =>
       \A d \in {ChunkOf(rx'.name).data} :
         \A type_code \in {read_uint(d, 4)}, p1 \in {read_uint(d, 8)}, p2 \in {read_uint(d, 12)} :
           /\ \A i \in 1..Len(io') : io'[i].ch = "client" /\ DictHas(clients, io'[i].cli)
           /\ \A j \in 1..Len(clients) :
                Received14(io', clients[j].k, type_code)
                  = ExpectedInput(clients[j].v.objects, type_code, p1, p2, now_ms)]_vars

\* A motion record whose scaled coordinates pass 2^32, read while a client
\* has a wl_pointer: the client got the wl_pointer.motion.
C14_Witness ==
  /\ rx.cli = "stdin" /\ rx.name = "motion, far"
  /\ \E c \in CID : EventsTo(c, "wl_pointer.motion", 11) # {}

\* The serials of the events of one kind written to c's socket.
SerialsOf(c, kind) ==
  LET w == SelectSeq(io, LAMBDA e : e.ch = "client" /\ e.cli = c /\ e.kind = kind)
  IN  [j \in 1..Len(w) |-> SerialOf(w[j])]

Distinct(q) == \A i \in 1..Len(q), j \in 1..Len(q) : i # j => q[i] # q[j]

\* C15: no two wl_keyboard.key events and no two wl_pointer.button events
\* written to one connection carry the same serial.
C15_OwnSerialPerEvent ==
  \A c \in CID :
    /\ Distinct(SerialsOf(c, "wl_keyboard.key"))
    /\ Distinct(SerialsOf(c, "wl_pointer.button"))

\* The new ids the callback and registry requests are tried with: the id of
\* wl_display, the id the clients use for their registry, and a free id.
TryIds == {1, 2, 20}

\* The bytes written to the client by a call, in order.
Sent(st) ==
  LET w == SelectSeq(st.io, LAMBDA e : e.ch = "client")
  IN  [j \in 1..Len(w) |-> w[j].data]

\* One wl_callback.done on object cb: header (cb, opcode 0, size 12) and one
\* u32; and cb is no key of the object table afterwards.
OneDone(st, cb) ==
  /\ ~st.exc
  /\ Len(Sent(st)) = 1
  /\ Len(Sent(st)[1]) = 12
  /\ Slice(Sent(st)[1], 0, HEADER_SIZE) = U32(cb) \o <<0, 0, 12, 0>>
  /\ ~DictHas(st.objects, cb)

\* C16: in every reachable state of a connection, wl_display.sync(cb) and
\* wl_surface.frame(cb) on any of its surfaces write exactly one
\* wl_callback.done (object cb, opcode 0, one u32), and cb is not in the
\* object table afterwards, whatever cb was before.
C16_CallbackDoneOnce ==
  \A j \in 1..Len(clients) : \A cb \in TryIds :
    \A s0 \in {CallState(clients[j].k, <<>>)} :
      /\ (DictHas(s0.objects, 1) /\ DictGet(s0.objects, 1).iface = "wl_display")
         => \A s1 \in {handle_message(s0, Sync(cb))} : OneDone(s1, cb)
      /\ \A k \in 1..Len(s0.objects) :
           s0.objects[k].v.iface = "wl_surface"
           => \A s1 \in {handle_message(s0, Req(s0.objects[k].k, 3, U32(cb)))} : OneDone(s1, cb)

\* A frame(14) on surface 7 was handled after a commit: its done was written
\* and 14 is not in the table.
C16_Witness ==
  \E c \in CID :
    /\ rx.cli = c /\ rx.name = "commit, frame"
    /\ DictHas(clients, c)
    /\ DictHas(DictGet(clients, c).objects, 7)
    /\ DictGet(DictGet(clients, c).objects, 7).iface = "wl_surface"
    /\ ~DictHas(DictGet(clients, c).objects, 14)
    /\ Cardinality(EventsTo(c, "wl_callback.done", 14)) = 1

\* wl_registry.global(name, interface, version) on object r as it is on the
\* wire: header, u32, string, u32.
GlobalEvent(r, name, iface, ver) == Req(r, 0, U32(name) \o WlString(iface) \o U32(ver))

\* The seven events of get_registry(r).
SevenGlobals(r) ==
  << GlobalEvent(r, 1, "wl_compositor", 4), GlobalEvent(r, 2, "wl_subcompositor", 1),
     GlobalEvent(r, 3, "wl_shm", 1), GlobalEvent(r, 4, "xdg_wm_base", 1),
     GlobalEvent(r, 5, "wl_seat", 5), GlobalEvent(r, 6, "wl_output", 3),
     GlobalEvent(r, 7, "wl_data_device_manager", 3) >>

\* The new id get_registry is tried with: one no client of the model uses.
RegistryIds == {20}

\* C17: in every reachable state of a connection that has wl_display,
\* get_registry(r) registers r as wl_registry version 1 and writes exactly
\* the seven wl_registry.global events on r, in the order of the list; this
\* holds for a first registry and for any later one.
C17_SevenGlobals ==
  \A j \in 1..Len(clients) : \A r \in RegistryIds :
    \A s0 \in {CallState(clients[j].k, <<>>)} :
      (DictHas(s0.objects, 1) /\ DictGet(s0.objects, 1).iface = "wl_display")
      => \A s1 \in {handle_message(s0, Req(1, 1, U32(r)))} :
           /\ ~s1.exc
           /\ Sent(s1) = SevenGlobals(r)
           /\ DictHas(s1.objects, r)
           /\ DictGet(s1.objects, r) = [iface |-> "wl_registry", ver |-> 1]

\* A get_registry(2) was handled on a connection: registry 2 is in the table
\* and the first seven events written are its globals.
C17_Witness ==
  \E c \in CID :
    /\ rx.cli = c /\ rx.name = "handshake"
    /\ DictHas(clients, c)
    /\ DictHas(DictGet(clients, c).objects, 2)
    /\ DictGet(DictGet(clients, c).objects, 2).iface = "wl_registry"
    /\ Len(Wire(io, c)) >= 7
    /\ [j \in 1..7 |-> Wire(io, c)[j].data] = SevenGlobals(2)

\* The (interface, version) pairs bind is tried with, and the new id.
BindTries ==
  { <<"wl_shm", 1>>, <<"wl_seat", 5>>, <<"wl_compositor", 4>>,
    <<"wl_output", 1>>, <<"wl_output", 2>>, <<"wl_output", 3>> }
BindId == 30

\* wl_output.geometry and wl_output.mode on object n as they are on the wire.
Geometry(n) ==
  Req(n, 0, U32(0) \o U32(0) \o U32(1920) \o U32(1080) \o U32(0)
              \o WlString("WinWay") \o WlString("Monitor") \o U32(0))
Mode(n) == Req(n, 1, U32(3) \o U32(1920) \o U32(1080) \o U32(60000))

\* The initial events of a bind of iface at version ver as new id n.
InitialEvents(iface, ver, n) ==
  IF iface = "wl_shm" THEN <<Req(n, 0, U32(0)), Req(n, 0, U32(1))>>
  ELSE IF iface = "wl_seat" THEN <<Req(n, 0, U32(3)), Req(n, 1, WlString("win-way-seat"))>>
  ELSE IF iface = "wl_output" THEN
    <<Geometry(n), Mode(n)>>
      \o (IF ver >= 2 THEN <<Req(n, 3, U32(1)), Req(n, 2, <<>>)>> ELSE <<>>)
  ELSE <<>>

\* C18: in every reachable state, a bind on any registry of a connection
\* registers the new id with the interface and the version of the request and
\* writes the initial events of the interface on the new id: format(0),
\* format(1) for wl_shm; capabilities(3), name for wl_seat; geometry, mode
\* and, exactly from version 2 on, scale(1), done for wl_output; nothing for
\* another interface.
C18_BindInitialEvents ==
  \A j \in 1..Len(clients) : \A s0 \in {CallState(clients[j].k, <<>>)} :
    \A k \in 1..Len(s0.objects) :
      s0.objects[k].v.iface = "wl_registry"
      => \A t \in BindTries :
           \A s1 \in {handle_message(s0, Bind(s0.objects[k].k, 1, t[1], t[2], BindId))} :
             /\ ~s1.exc
             /\ DictHas(s1.objects, BindId)
             /\ DictGet(s1.objects, BindId) = [iface |-> t[1], ver |-> t[2]]
             /\ Sent(s1) = InitialEvents(t[1], t[2], BindId)

\* One batch bound wl_shm, wl_seat, wl_output at version 1 and wl_output at
\* version 3; the events of the four binds were written in that order.
C18_Witness ==
  \E c \in CID :
    /\ rx.cli = c /\ rx.name = "handshake, bind wl_output v1 and v3"
    /\ DictHas(clients, c)
    /\ DictHas(DictGet(clients, c).objects, 18)
    /\ DictGet(DictGet(clients, c).objects, 17) = [iface |-> "wl_output", ver |-> 1]
    /\ DictGet(DictGet(clients, c).objects, 18) = [iface |-> "wl_output", ver |-> 3]
    /\ Len(Wire(io, c)) = 17
    /\ [j \in 8..17 |-> Wire(io, c)[j].data]
         = [j \in 8..17 |->
              (InitialEvents("wl_shm", 1, 4) \o InitialEvents("wl_seat", 5, 5)
                 \o InitialEvents("wl_output", 1, 17) \o InitialEvents("wl_output", 3, 18))[j - 7]]

\* The bytes written to the host channel as PIXL rows from place i on, up to
\* the first write that is not a row.
RECURSIVE PayloadLen(_)
PayloadLen(i) ==
  IF i > Len(io) \/ io[i].ch # "host" \/ io[i].kind # "PIXL.row" THEN 0
  ELSE Len(io[i].data) + PayloadLen(i + 1)

\* The places of the PIXL headers written to the host channel.
Headers == {i \in Places : io[i].ch = "host" /\ io[i].kind = "PIXL.header"}

\* C19: a commit of surface 7 whose attached buffer lies at a non-negative
\* offset of a mapped pool of size S, with N >= 1 rows that fit
\* (offset + y*stride + w*4 <= S, counted from y = 0), writes a PIXL header
\* whose length field is N*w*4 followed by N rows of w*4 bytes, also when
\* offset + stride*h exceeds S.
C19_RecordWheneverRowsFit ==
  \A c \in CID :
    (rx.cli = c /\ rx.name = "commit" /\ DictHas(clients, c))
    => \A cl \in {DictGet(clients, c)} :
         (/\ DictHas(cl.surfaces, 7)
          /\ DictHas(cl.buffers, DictGet(cl.surfaces, 7)))
         => \A buf \in {DictGet(cl.buffers, DictGet(cl.surfaces, 7))} :
              (/\ DictHas(cl.shm_pools, buf.pid)
               /\ DictGet(cl.shm_pools, buf.pid).mm # 0
               /\ buf.off >= 0 /\ buf.w > 0
               /\ FitRows(buf.off, buf.stride, buf.w * 4, buf.h,
                          DictGet(cl.shm_pools, buf.pid).size, 0) >= 1)
              => \A n \in {FitRows(buf.off, buf.stride, buf.w * 4, buf.h,
                                   DictGet(cl.shm_pools, buf.pid).size, 0)} :
                   \E i \in Headers :
                     /\ read_uint(io[i].data, 20) = n * buf.w * 4
                     /\ i + n <= Len(io)
                     /\ \A y \in 1..n : /\ io[i + y].kind = "PIXL.row"
                                        /\ Len(io[i + y].data) = buf.w * 4

\* C20: every PIXL header written to the host channel is followed by as many
\* payload bytes as its length field states, and the length field is
\* height * width * 4 of the header.
C20_WellFormedRecords ==
  \A i \in Headers :
    /\ PayloadLen(i + 1) = read_uint(io[i].data, 20)
    /\ read_uint(io[i].data, 20) = read_uint(io[i].data, 12) * read_uint(io[i].data, 8) * 4

\* An array argument as the wire format has it: u32 length, the bytes, the
\* padding to a multiple of 4.
ArrayWire(b) == U32(Len(b)) \o b \o Zeros((4 - (Len(b) % 4)) % 4)

\* The argument tuples encode_message is tried with: the tuples of the
\* program's own events (callback done, seat name, toplevel configure with
\* its empty array, pointer enter) and arrays of one to four bytes.
WireArgs ==
  { <<AInt(5)>>, <<AInt(0 - 1)>>, <<AStr("win-way-seat")>>, <<AInt(3), AStr("wl_shm"), AInt(1)>>,
    <<AInt(800), AInt(600), ABytes(<<>>)>>, <<AInt(1), AInt(7), ABytes(<<>>)>>,
    <<ABytes(<<1>>)>>, <<AInt(2), ABytes(<<1, 2, 3>>)>>, <<ABytes(<<1, 2, 3, 4>>)>> }

\* The opcodes encode_message is tried with.
WireOpcodes == {0, 4, 260}

\* The arguments read back from a payload at offset pos with the readers of
\* the program (read_uint, read_int, read_string); an array is read as its
\* length, that many bytes and the padding.
\* What stands for an argument whose read raised struct.error.
ReadError == [t |-> "struct.error", i |-> 0, b |-> <<>>]

RECURSIVE ReadArgs(_, _, _)
ReadArgs(pay, pos, args) ==
  IF args = <<>> THEN <<>>
  ELSE LET a == Head(args)
       IN  IF a.t = "int" THEN
             IF ~CanRead(pay, pos) THEN <<ReadError>>
             ELSE <<AInt(IF a.i < 0 THEN read_int(pay, pos) ELSE read_uint(pay, pos))>>
                    \o ReadArgs(pay, pos + 4, Tail(args))
           ELSE IF a.t = "str" THEN
             IF ~CanRead(pay, pos) THEN <<ReadError>>
             ELSE <<[t |-> "str", i |-> 0, b |-> read_string(pay, pos).s]>>
                    \o ReadArgs(pay, read_string(pay, pos).pos, Tail(args))
           ELSE
             IF ~CanRead(pay, pos) THEN <<ReadError>>
             ELSE <<ABytes(Slice(pay, pos + 4, read_uint(pay, pos)))>>
                    \o ReadArgs(pay, pos + 4 + read_uint(pay, pos)
                                       + ((4 - (read_uint(pay, pos) % 4)) % 4), Tail(args))

\* C21: for every object of a connection's table and every opcode and
\* argument tuple tried, the length of the message encoded for the object is a multiple of 4, the size field of its header is
\* its length, decode_header returns the object id and the opcode, and the
\* readers return the arguments, an array being on the wire as its u32
\* length, its bytes and the padding to 4.
C21_WireRoundTrip ==
  \A j \in 1..Len(clients) : \A k \in 1..Len(clients[j].v.objects) :
    \A object_id \in {clients[j].v.objects[k].k} :
      \A opcode \in WireOpcodes : \A args \in WireArgs :
        \A m \in {encode_message(object_id, opcode, args)} :
          /\ Len(m) % 4 = 0
          /\ decode_header(m, 0) = [object_id |-> object_id, opcode |-> opcode, size |-> Len(m)]
          /\ ReadArgs(Slice(m, HEADER_SIZE, Len(m)), 0, args) = args

\* A PIXL record of trace t failed: a header was written to the host channel
\* and no flush came after it (a row could not be read, or the flush raised).
PixlFailed(t) ==
  \E i \in 1..Len(t) :
    /\ t[i].ch = "host" /\ t[i].kind = "PIXL.header"
    /\ \A j \in (i + 1)..Len(t) : ~(t[j].ch = "host" /\ t[j].kind = "flush")

\* The tables of a connection that a commit has no business with.
Tables(cl) ==
  [objects |-> cl.objects, shm_pools |-> cl.shm_pools, buffers |-> cl.buffers,
   surfaces |-> cl.surfaces]

\* C22: when the PIXL record of a commit fails in a read that holds the
\* commit and then a frame request, the client stays connected and in the
\* client set, its object table, pools, buffers and surface mapping are what
\* they were, and the frame request is still answered with its callback's
\* done event.
C22_PixlFailureKeepsClient ==
  [][\A c \in CID :
       (/\ rx'.cli = c /\ rx'.name = "commit, frame"
        /\ DictHas(clients, c)
        /\ PixlFailed(io'))
       => /\ DictHas(clients', c)
          /\ socks'[c] = "open"
          /\ Tables(DictGet(clients', c)) = Tables(DictGet(clients, c))
          /\ \E i \in 1..Len(io') :
               /\ io'[i].ch = "client" /\ io'[i].cli = c
               /\ io'[i].kind = "wl_callback.done"
               /\ EventObject(io'[i]) = 14]_vars

\* A read of commit and frame whose record failed at the flush: header and
\* both rows were written, the flush raised, and the client is connected.
C22_Witness ==
  \E c \in CID :
    /\ rx.cli = c /\ rx.name = "commit, frame"
    /\ DictHas(clients, c)
    /\ PixlFailed(io)
    /\ \E i \in Places : io[i].ch = "host" /\ io[i].kind = "flush raises"
    /\ \E i \in Places : io[i].ch = "host" /\ io[i].kind = "PIXL.row"

\* The places of the system calls of one kind in io.
Calls(kind) == {i \in Places : io[i].ch = "sys" /\ io[i].kind = kind}

\* C23: in a teardown (the system calls that end with the close of the
\* client's socket) every munmap comes before every close of a descriptor,
\* and every close of a descriptor before the close of the socket.
C23_UnmapAllThenCloseAll ==
  Calls("sock.close") # {}
  => /\ \A i \in Calls("munmap") : \A j \in Calls("close") : i < j
     /\ \A j \in Calls("close") : \A k \in Calls("sock.close") : j < k

\* C24: in every connection of the client set object id 1 is in the object
\* table as wl_display version 1.
C24_DisplayStays ==
  \A j \in 1..Len(clients) :
    /\ DictHas(clients[j].v.objects, 1)
    /\ DictGet(clients[j].v.objects, 1) = [iface |-> "wl_display", ver |-> 1]

\* The descriptors (mappings) the system calls of trace t close (unmap), in
\* the order of the calls.
Closed(t, kind) ==
  LET sel == SelectSeq(t, LAMBDA e : e.ch = "sys" /\ e.kind = kind)
  IN  [i \in 1..Len(sel) |-> sel[i].data[1]]

\* The pool entries of every connection, as (fd, mm) records.
PoolEntries(cls) ==
  UNION {{cls[j].v.shm_pools[k].v : k \in 1..Len(cls[j].v.shm_pools)} : j \in 1..Len(cls)}

\* C25: in every step, each pool entry that leaves the pool registries (by
\* destroy, by teardown or by a create_pool on its id) has its descriptor
\* closed exactly once and its mapping unmapped exactly once by the system
\* calls of the step, and nothing else is closed or unmapped.
C25_ReleasedExactlyOnce ==
  [][\A gone \in {PoolEntries(clients) \ PoolEntries(clients')} :
       /\ \A e \in gone :
            /\ Cardinality({i \in 1..Len(Closed(io', "close")) : Closed(io', "close")[i] = e.fd}) = 1
            /\ e.mm # 0 =>
                 Cardinality({i \in 1..Len(Closed(io', "munmap")) :
                                Closed(io', "munmap")[i] = e.mm}) = 1
       /\ Distinct(Closed(io', "close"))
       /\ Distinct(Closed(io', "munmap"))]_vars

\* The loop of run_stdio's stdin branch started on buffer buf with the
\* clients of the state.
HostLoop(buf) ==
  StdinLoop([clients |-> clients, io |-> <<>>, gen |-> 0, now |-> now_ms, buf |-> buf])

\* One read that returns data, and two reads that return its first k bytes
\* and the rest: what the loops leave.
OneRead(data) == HostLoop(hbuf \o data)

TwoReads(data, k) ==
  \* the second read appends to what the first loop left in buf
  LET first == HostLoop(hbuf \o Slice(data, 0, k))
  IN  StdinLoop([first EXCEPT !.buf = @ \o Slice(data, k, Len(data))])

\* The bytes written to the clients' sockets by a loop, with their sockets.
Written(ctx) == [i \in 1..Len(ctx.io) |-> [cli |-> ctx.io[i].cli, data |-> ctx.io[i].data]]

\* The places a read can end inside a 20-byte record.
SplitPoints == 1..19

\* C26: whenever the host buffer is empty and a connection has a
\* wl_keyboard or a wl_pointer, an INPT record that arrives in two reads,
\* split at any byte, gives the clients the events it gives when it arrives
\* in one read and leaves the same bytes in the buffer.
C26_SplitIndependent ==
  (/\ hbuf = <<>>
   /\ \E j \in 1..Len(clients) : \E k \in 1..Len(clients[j].v.objects) :
        clients[j].v.objects[k].v.iface \in {"wl_keyboard", "wl_pointer"})
  => \A d \in HostChunks : \A k \in SplitPoints :
       \A one \in {OneRead(d.data)} : \A two \in {TwoReads(d.data, k)} :
         /\ Written(two) = Written(one)
         /\ two.buf = one.buf

====
